---------------------------- MODULE Spec2Model ----------------------------
(***************************************************************************)
(* Model of internal/database/worker.go: the Worker that owns the schema   *)
(* cache (dbCache), the caller side of ReCache (primary refresh, then the  *)
(* trigger of the secondary refresh) and the background loop of Start     *)
(* (secondary refresh and the isUpdated flag).                             *)
(*                                                                         *)
(* Threads: one goroutine calling ReCache (the request handler; w.dbRepo   *)
(* is written without the lock, ReCache calls follow one another), the     *)
(* goroutine of Start, and a goroutine calling Start and Stop.  Readers    *)
(* of Cache() and UpdateCompleted() may run at any state.  Every atomic    *)
(* operation of the source (channel operation, atomic store, critical      *)
(* section, call of the repository) is one step.                           *)
(*                                                                         *)
(* parseForeignKeys (the grouping of the rows of a foreign-key query into  *)
(* relations) is modelled row by row under its own specification FKSpec.   *)
(***************************************************************************)
EXTENDS Naturals, Sequences, FiniteSets

\* Bounds of the exploration
MaxCalls == 3          \* number of ReCache calls explored
NumRepos == 2          \* number of distinct repositories handed to ReCache
MaxRows == 3           \* longest row stream given to parseForeignKeys

\* Program constant: capacity of the update channel
UpdateCap == 1

Repos == 1..NumRepos

VARIABLES
    dbRepo,      \* Worker.dbRepo: 0 is nil
    dbCache,     \* Worker.dbCache: the installed *DBCache and its fields
    done,        \* Worker.done: "open" or "closed"
    update,      \* Worker.update: number of buffered requests
    isUpdated,   \* Worker.isUpdated
    caller,      \* the goroutine in ReCache: position and locals
    loop,        \* the goroutine of Start: position and locals
    hist,        \* history: counts of the events the properties speak of
    lock,        \* Worker.lock: "free", or the goroutine holding it
    reader,      \* a goroutine reading Cache() and UpdateCompleted()
    fk           \* one run of parseForeignKeys: input, locals, result

vars == <<dbRepo, dbCache, done, update, isUpdated, caller, loop, hist,
          lock, reader, fk>>

\* A sub-map nobody has written: the nil map of a freshly built cache.
NilMap == [cycle |-> 0, repo |-> 0, data |-> "empty"]

\* The nil *DBCache.
NilCache == [by |-> 0, repo |-> 0, col |-> NilMap, fk |-> NilMap]

\* Result of the primary refresh of call `call` against repository `repo`:
\* a brand-new cache holding the topology, detail sub-maps not yet written.
GenerateDBCachePrimary(repo, call) ==
    [by |-> call, repo |-> repo, col |-> NilMap, fk |-> NilMap]

\* Result of the secondary refresh of cycle `cycle` against `repo`.
\* On success both maps are populated; with an error come two maps without
\* entries.
GenerateDBCacheSecondary(repo, cycle, ok) ==
    IF ok
    THEN [col |-> [cycle |-> cycle, repo |-> repo, data |-> "full"],
          fk  |-> [cycle |-> cycle, repo |-> repo, data |-> "full"],
          err |-> FALSE]
    ELSE [col |-> [cycle |-> cycle, repo |-> repo, data |-> "empty"],
          fk  |-> [cycle |-> cycle, repo |-> repo, data |-> "empty"],
          err |-> TRUE]

\* Worker.Cache()
Cache == dbCache

\* Worker.UpdateCompleted()
UpdateCompleted == isUpdated

\* The reader has called nothing yet.  `held` tells whether Worker.lock was
\* held by a writer when the reader's last call ran.
NoRead == [op |-> "none", ref |-> 0, ready |-> FALSE, held |-> FALSE]

\* No run of parseForeignKeys.
FkIdle == [pc |-> "idle"]

\* NewWorker
Init ==
    /\ dbRepo = 0
    /\ dbCache = NilCache
    /\ done = "open"
    /\ update = 0
    /\ isUpdated = FALSE
    /\ caller = [pc |-> "idle", call |-> 0, repo |-> 0, cache |-> NilCache,
                 entryRef |-> 0, entryIssued |-> 0]
    /\ loop = [pc |-> "notstarted", cycle |-> 0, repo |-> 0,
               col |-> NilMap, fk |-> NilMap, err |-> FALSE]
    /\ hist = [issued |-> 0, sent |-> 0, late |-> 0, cycles |-> 0,
               lastDone |-> 0]
    /\ lock = "free"
    /\ reader = NoRead
    /\ fk = FkIdle

--------------------------------------------------------------------------
\* Writes under Worker.lock

\* Variant: the new cache is built but never installed.
setCache_Dropped(c) ==
    dbCache' = dbCache

setCache(c) ==
    dbCache' = c

\* Variant: the write of the columns rebuilds the detail part of the cache.
setColumnCache_Clobber(col) ==
    dbCache' = IF dbCache.by # 0
               THEN [dbCache EXCEPT !.col = col, !.fk = NilMap]
               ELSE dbCache

setColumnCache(col) ==
    dbCache' = IF dbCache.by # 0 THEN [dbCache EXCEPT !.col = col]
               ELSE dbCache

setForeignKeysCache(fksCache) ==
    dbCache' = IF dbCache.by # 0 THEN [dbCache EXCEPT !.fk = fksCache]
               ELSE dbCache

--------------------------------------------------------------------------
\* ReCache, on the caller's goroutine

\* ReCache: w.dbRepo = repo
ReCache_bind(repo) ==
    /\ caller.pc = "idle"
    /\ caller.call < MaxCalls
    /\ dbRepo' = repo
    /\ caller' = [caller EXCEPT !.pc = "primary", !.call = @ + 1,
                                !.entryRef = dbCache.by,
                                !.entryIssued = hist.issued]
    /\ UNCHANGED <<dbCache, done, update, isUpdated, loop, hist,
                 lock, reader, fk>>

\* Variant: the result of the generator is installed before the error is
\* looked at.
updateAllCache_generate_InstallFirst(ok) ==
    /\ caller.pc = "primary"
    /\ caller' = IF ok
                 THEN [caller EXCEPT !.pc = "setCache", !.repo = dbRepo,
                          !.cache = GenerateDBCachePrimary(dbRepo, caller.call)]
                 ELSE [caller EXCEPT !.pc = "ret_err", !.repo = dbRepo]
    /\ dbCache' = IF ok THEN dbCache
                  ELSE GenerateDBCachePrimary(dbRepo, caller.call)
    /\ UNCHANGED <<dbRepo, done, update, isUpdated, loop, hist, lock,
                 reader, fk>>

\* Variant: ReCache ignores the error of updateAllCache and goes on to the
\* trigger.
updateAllCache_generate_IgnoreError(ok) ==
    /\ caller.pc = "primary"
    /\ caller' = IF ok
                 THEN [caller EXCEPT !.pc = "setCache", !.repo = dbRepo,
                          !.cache = GenerateDBCachePrimary(dbRepo, caller.call)]
                 ELSE [caller EXCEPT !.pc = "trigger", !.repo = dbRepo]
    /\ UNCHANGED <<dbRepo, dbCache, done, update, isUpdated, loop,
                   hist, lock, reader, fk>>

\* updateAllCache: the generator is built on w.dbRepo and queried; an error
\* is returned through ReCache.
updateAllCache_generate(ok) ==
    /\ caller.pc = "primary"
    /\ caller' = IF ok
                 THEN [caller EXCEPT !.pc = "setCache", !.repo = dbRepo,
                          !.cache = GenerateDBCachePrimary(dbRepo, caller.call)]
                 ELSE [caller EXCEPT !.pc = "ret_err", !.repo = dbRepo]
    /\ UNCHANGED <<dbRepo, dbCache, done, update, isUpdated, loop,
                 hist, lock, reader, fk>>

\* setCache: w.lock.Lock()
setCache_Lock ==
    /\ caller.pc = "setCache"
    /\ lock = "free"
    /\ lock' = "caller"
    /\ UNCHANGED <<dbRepo, dbCache, done, update, isUpdated, caller, loop,
                   hist, reader, fk>>

\* updateAllCache: w.setCache(cache), the assignment and the deferred Unlock
updateAllCache_setCache ==
    /\ caller.pc = "setCache"
    /\ lock = "caller"
    /\ setCache(caller.cache)
    /\ caller' = [caller EXCEPT !.pc = "trigger"]
    /\ lock' = "free"
    /\ UNCHANGED <<dbRepo, done, update, isUpdated, loop, hist, reader, fk>>

\* updateAdditionalCache: w.update <- struct{}{}.  The send completes at
\* once when the buffer has room; otherwise the goroutine parks on the
\* channel until a receive makes room for its value.
updateAdditionalCache ==
    /\ caller.pc = "trigger"
    /\ IF update < UpdateCap
       THEN /\ update' = update + 1
            /\ caller' = [caller EXCEPT !.pc = "ret_ok"]
            /\ hist' = [hist EXCEPT !.issued = @ + 1, !.sent = @ + 1]
       ELSE /\ update' = update
            /\ caller' = [caller EXCEPT !.pc = "parked"]
            /\ hist' = [hist EXCEPT !.issued = @ + 1]
    /\ UNCHANGED <<dbRepo, dbCache, done, isUpdated, loop, lock, reader, fk>>

\* ReCache returns (nil or the error) to its caller.
ReCache_return ==
    /\ caller.pc \in {"ret_ok", "ret_err"}
    /\ caller' = [caller EXCEPT !.pc = "idle"]
    /\ UNCHANGED <<dbRepo, dbCache, done, update, isUpdated, loop,
                 hist, lock, reader, fk>>

--------------------------------------------------------------------------
\* Start, Stop and the background loop

\* Start: go func() { ... }
Start ==
    /\ loop.pc = "notstarted"
    /\ loop' = [loop EXCEPT !.pc = "select"]
    /\ UNCHANGED <<dbRepo, dbCache, done, update, isUpdated, caller,
                 hist, lock, reader, fk>>

\* Stop: close(w.done)
Stop ==
    /\ done = "open"
    /\ done' = "closed"
    /\ UNCHANGED <<dbRepo, dbCache, update, isUpdated, caller, loop,
                 hist, lock, reader, fk>>

\* Variant: the done case leaves the select but not the for loop.
Loop_recvDone_BreakOnly ==
    /\ loop.pc = "select"
    /\ done = "closed"
    /\ loop' = loop
    /\ UNCHANGED <<dbRepo, dbCache, done, update, isUpdated, caller,
                   hist, lock, reader, fk>>

\* select: case <-w.done
Loop_recvDone ==
    /\ loop.pc = "select"
    /\ done = "closed"
    /\ loop' = [loop EXCEPT !.pc = "exited"]
    /\ UNCHANGED <<dbRepo, dbCache, done, update, isUpdated, caller,
                 hist, lock, reader, fk>>

\* Variant: the update case runs without a request having been received.
Loop_recvUpdate_Spurious ==
    /\ loop.pc = "select"
    /\ hist' = [hist EXCEPT !.cycles = @ + 1]
    /\ loop' = [loop EXCEPT !.pc = "clear", !.cycle = hist.cycles + 1]
    /\ UNCHANGED <<dbRepo, dbCache, done, update, isUpdated, caller,
                 lock, reader, fk>>

\* select: case <-w.update.  The receive takes the buffered request; the
\* value of a sender parked on the channel moves into the freed slot and
\* that sender resumes.
Loop_recvUpdate ==
    /\ loop.pc = "select"
    /\ update > 0
    /\ IF caller.pc = "parked"
       THEN /\ update' = update
            /\ caller' = [caller EXCEPT !.pc = "ret_ok"]
            /\ hist' = [hist EXCEPT !.cycles = @ + 1, !.sent = @ + 1,
                                    !.late = @ + 1]
       ELSE /\ update' = update - 1
            /\ caller' = caller
            /\ hist' = [hist EXCEPT !.cycles = @ + 1]
    /\ loop' = [loop EXCEPT !.pc = "clear", !.cycle = hist.cycles + 1]
    /\ UNCHANGED <<dbRepo, dbCache, done, isUpdated, lock, reader, fk>>

\* w.isUpdated.Store(false)
Loop_storeFalse ==
    /\ loop.pc = "clear"
    /\ isUpdated' = FALSE
    /\ loop' = [loop EXCEPT !.pc = "newUpdater"]
    /\ UNCHANGED <<dbRepo, dbCache, done, update, caller, hist, lock,
                 reader, fk>>

\* Variant: the generator is built once and reused by later cycles.
Loop_newUpdater_Reuse ==
    /\ loop.pc = "newUpdater"
    /\ loop' = [loop EXCEPT !.pc = "generate",
                            !.repo = IF loop.repo # 0 THEN loop.repo
                                     ELSE dbRepo]
    /\ UNCHANGED <<dbRepo, dbCache, done, update, isUpdated, caller,
                   hist, lock, reader, fk>>

\* generator := NewDBCacheUpdater(w.dbRepo)
Loop_newUpdater ==
    /\ loop.pc = "newUpdater"
    /\ loop' = [loop EXCEPT !.pc = "generate", !.repo = dbRepo]
    /\ UNCHANGED <<dbRepo, dbCache, done, update, isUpdated, caller,
                 hist, lock, reader, fk>>

\* Variant: after logging the error the loop goes on to the next request.
Loop_generate_ContinueOnError(ok) ==
    /\ loop.pc = "generate"
    /\ LET res == GenerateDBCacheSecondary(loop.repo, loop.cycle, ok)
       IN loop' = [loop EXCEPT !.pc = IF ok THEN "setColumnCache"
                                            ELSE "select",
                               !.col = res.col, !.fk = res.fk,
                               !.err = res.err]
    /\ UNCHANGED <<dbRepo, dbCache, done, update, isUpdated, caller,
                   hist, lock, reader, fk>>

\* Variant: after logging the error the goroutine returns.
Loop_generate_ExitOnError(ok) ==
    /\ loop.pc = "generate"
    /\ LET res == GenerateDBCacheSecondary(loop.repo, loop.cycle, ok)
       IN loop' = [loop EXCEPT !.pc = IF ok THEN "setColumnCache"
                                            ELSE "exited",
                               !.col = res.col, !.fk = res.fk,
                               !.err = res.err]
    /\ UNCHANGED <<dbRepo, dbCache, done, update, isUpdated, caller,
                   hist, lock, reader, fk>>

\* col, fksCache, err := generator.GenerateDBCacheSecondary(...); an error
\* is logged.
Loop_generate(ok) ==
    /\ loop.pc = "generate"
    /\ LET res == GenerateDBCacheSecondary(loop.repo, loop.cycle, ok)
       IN loop' = [loop EXCEPT !.pc = "setColumnCache", !.col = res.col,
                               !.fk = res.fk, !.err = res.err]
    /\ UNCHANGED <<dbRepo, dbCache, done, update, isUpdated, caller,
                 hist, lock, reader, fk>>

\* setColumnCache: w.lock.Lock()
setColumnCache_Lock ==
    /\ loop.pc = "setColumnCache"
    /\ lock = "free"
    /\ lock' = "loop"
    /\ UNCHANGED <<dbRepo, dbCache, done, update, isUpdated, caller, loop,
                   hist, reader, fk>>

\* w.setColumnCache(col), the assignment and the deferred Unlock
Loop_setColumnCache ==
    /\ loop.pc = "setColumnCache"
    /\ lock = "loop"
    /\ setColumnCache(loop.col)
    /\ loop' = [loop EXCEPT !.pc = "setForeignKeysCache"]
    /\ lock' = "free"
    /\ UNCHANGED <<dbRepo, done, update, isUpdated, caller, hist, reader, fk>>

\* setForeignKeysCache: w.lock.Lock()
setForeignKeysCache_Lock ==
    /\ loop.pc = "setForeignKeysCache"
    /\ lock = "free"
    /\ lock' = "loop"
    /\ UNCHANGED <<dbRepo, dbCache, done, update, isUpdated, caller, loop,
                   hist, reader, fk>>

\* Variant: the loop goes back to the select without storing the flag.
Loop_setForeignKeysCache_NoStore ==
    /\ loop.pc = "setForeignKeysCache"
    /\ lock = "loop"
    /\ setForeignKeysCache(loop.fk)
    /\ loop' = [loop EXCEPT !.pc = "select"]
    /\ lock' = "free"
    /\ UNCHANGED <<dbRepo, done, update, isUpdated, caller, hist, reader, fk>>

\* w.setForeignKeysCache(fksCache), the assignment and the deferred Unlock
Loop_setForeignKeysCache ==
    /\ loop.pc = "setForeignKeysCache"
    /\ lock = "loop"
    /\ setForeignKeysCache(loop.fk)
    /\ loop' = [loop EXCEPT !.pc = "storeTrue"]
    /\ lock' = "free"
    /\ UNCHANGED <<dbRepo, done, update, isUpdated, caller, hist, reader, fk>>

\* w.isUpdated.Store(true), then back to the select
Loop_storeTrue ==
    /\ loop.pc = "storeTrue"
    /\ isUpdated' = TRUE
    /\ loop' = [loop EXCEPT !.pc = "select"]
    /\ hist' = [hist EXCEPT !.lastDone = loop.cycle]
    /\ UNCHANGED <<dbRepo, dbCache, done, update, caller, lock, reader, fk>>

--------------------------------------------------------------------------
Next ==
    \/ \E repo \in Repos : ReCache_bind(repo)
    \/ \E ok \in BOOLEAN : updateAllCache_generate(ok)
    \/ setCache_Lock
    \/ updateAllCache_setCache
    \/ updateAdditionalCache
    \/ ReCache_return
    \/ Start
    \/ Stop
    \/ Loop_recvDone
    \/ Loop_recvUpdate
    \/ Loop_storeFalse
    \/ Loop_newUpdater
    \/ \E ok \in BOOLEAN : Loop_generate(ok)
    \/ setColumnCache_Lock
    \/ Loop_setColumnCache
    \/ setForeignKeysCache_Lock
    \/ Loop_setForeignKeysCache
    \/ Loop_storeTrue

Spec == Init /\ [][Next]_vars

--------------------------------------------------------------------------
\* Readers: the completion engine and the readiness probe

\* Variant: Cache() takes Worker.lock for its read.
Reader_Cache_Locked ==
    /\ lock = "free"
    /\ reader' = [op |-> "Cache", ref |-> dbCache.by, ready |-> FALSE,
                  held |-> FALSE]
    /\ UNCHANGED <<dbRepo, dbCache, done, update, isUpdated, caller, loop,
                   hist, lock, fk>>

\* Cache(): return w.dbCache, no lock taken
Reader_Cache ==
    /\ reader' = [op |-> "Cache", ref |-> dbCache.by, ready |-> FALSE,
                  held |-> lock # "free"]
    /\ UNCHANGED <<dbRepo, dbCache, done, update, isUpdated, caller, loop,
                   hist, lock, fk>>

\* UpdateCompleted(): return w.isUpdated.Load(), no lock taken
Reader_UpdateCompleted ==
    /\ reader' = [op |-> "UpdateCompleted", ref |-> 0, ready |-> isUpdated,
                  held |-> lock # "free"]
    /\ UNCHANGED <<dbRepo, dbCache, done, update, isUpdated, caller, loop,
                   hist, lock, fk>>

\* The worker together with a reader.
ReadNext ==
    \/ Next
    \/ Reader_Cache
    \/ Reader_UpdateCompleted

ReadSpec == Init /\ [][ReadNext]_vars

--------------------------------------------------------------------------
\* parseForeignKeys: the rows of one foreign-key query, grouped

FkIDs == {"", "fk1"}
FkTables == {"", "T"}
FkColumns == {"a", "b"}
FkSchemas == {"public", "extra"}

\* The rows a query can return; the sixth column is read only when the
\* query has six.
FkRows ==
    {[fkID |-> id, table |-> t, column |-> c, refTable |-> "U",
      refColumn |-> IF c = "a" THEN "x" ELSE "y", refSchema |-> rs] :
        id \in FkIDs, t \in FkTables, c \in FkColumns, rs \in FkSchemas}

FkStreams == UNION {[1..n -> FkRows] : n \in 0..MaxRows}

\* var cur *ForeignKey
NilRelation == [nil |-> TRUE, pairs |-> <<>>]

\* Variant: the referenced schema is always the schema being described.
scanRow_NoRefSchema(row, ncols, schemaName) ==
    [fkID |-> row.fkID, table |-> row.table, column |-> row.column,
     refTable |-> row.refTable, refColumn |-> row.refColumn,
     refSchema |-> schemaName]

\* rows.Scan into fkItem: six destinations when the query has six columns,
\* else five and the schema being described as referenced schema.
scanRow(row, ncols, schemaName) ==
    [fkID |-> row.fkID, table |-> row.table, column |-> row.column,
     refTable |-> row.refTable, refColumn |-> row.refColumn,
     refSchema |-> IF ncols = 6 THEN row.refSchema ELSE schemaName]

\* fkItem.fkID != prevFk || fkItem.table != prevTable
startsRelation(item, prevFk, prevTable) ==
    item.fkID # prevFk \/ item.table # prevTable

\* Variant: cur is appended without the nil test.
flush_Always(retVal, cur) ==
    Append(retVal, cur.pairs)

\* if cur != nil { retVal = append(retVal, cur) }
flush(retVal, cur) ==
    IF cur.nil THEN retVal ELSE Append(retVal, cur.pairs)

\* A call of parseForeignKeys on a stream, before its first rows.Next().
FKInit ==
    /\ dbRepo = 0
    /\ dbCache = NilCache
    /\ done = "open"
    /\ update = 0
    /\ isUpdated = FALSE
    /\ caller = [pc |-> "idle", call |-> 0, repo |-> 0, cache |-> NilCache,
                 entryRef |-> 0, entryIssued |-> 0]
    /\ loop = [pc |-> "notstarted", cycle |-> 0, repo |-> 0,
               col |-> NilMap, fk |-> NilMap, err |-> FALSE]
    /\ hist = [issued |-> 0, sent |-> 0, late |-> 0, cycles |-> 0,
               lastDone |-> 0]
    /\ lock = "free"
    /\ reader = NoRead
    /\ \E rows \in FkStreams, ncols \in {5, 6}, schemaName \in FkSchemas :
          fk = [pc |-> "loop", rows |-> rows, ncols |-> ncols,
                schemaName |-> schemaName, i |-> 0, retVal |-> <<>>,
                prevFk |-> "", prevTable |-> "", cur |-> NilRelation]

\* One turn of `for rows.Next()`: scan the row, build the pair, start a
\* relation when the key changes, append the pair to the relation in
\* progress.  Appending through a nil cur is a nil dereference: the call
\* panics.
parseForeignKeys_next ==
    /\ fk.pc = "loop"
    /\ fk.i < Len(fk.rows)
    /\ LET fkItem == scanRow(fk.rows[fk.i + 1], fk.ncols, fk.schemaName)
           l == [Schema |-> fk.schemaName, Table |-> fkItem.table,
                 Name |-> fkItem.column]
           r == [Schema |-> fkItem.refSchema, Table |-> fkItem.refTable,
                 Name |-> fkItem.refColumn]
           fresh == startsRelation(fkItem, fk.prevFk, fk.prevTable)
           retVal1 == IF fresh THEN flush(fk.retVal, fk.cur) ELSE fk.retVal
           cur1 == IF fresh THEN [nil |-> FALSE, pairs |-> <<>>] ELSE fk.cur
       IN IF cur1.nil
          THEN fk' = [fk EXCEPT !.pc = "panic"]
          ELSE fk' = [fk EXCEPT !.i = @ + 1,
                                !.retVal = retVal1,
                                !.cur = [nil |-> FALSE,
                                         pairs |-> Append(cur1.pairs, <<l, r>>)],
                                !.prevFk = fkItem.fkID,
                                !.prevTable = fkItem.table]
    /\ UNCHANGED <<dbRepo, dbCache, done, update, isUpdated, caller, loop,
                   hist, lock, reader>>

\* rows.Next() is false: the relation in progress is appended and the
\* list returned with a nil error.
parseForeignKeys_return ==
    /\ fk.pc = "loop"
    /\ fk.i = Len(fk.rows)
    /\ fk' = [fk EXCEPT !.pc = "done", !.retVal = flush(fk.retVal, fk.cur)]
    /\ UNCHANGED <<dbRepo, dbCache, done, update, isUpdated, caller, loop,
                   hist, lock, reader>>

FKNext ==
    \/ parseForeignKeys_next
    \/ parseForeignKeys_return

FKSpec == FKInit /\ [][FKNext]_vars

\* A step of the goroutine of Start.
LoopStep ==
    \/ Loop_recvDone
    \/ Loop_recvUpdate
    \/ Loop_storeFalse
    \/ Loop_newUpdater
    \/ \E ok \in BOOLEAN : Loop_generate(ok)
    \/ setColumnCache_Lock
    \/ Loop_setColumnCache
    \/ setForeignKeysCache_Lock
    \/ Loop_setForeignKeysCache
    \/ Loop_storeTrue

\* The goroutine of Start is scheduled and the calls of the repository
\* return; the select chooses at random among the ready cases, so the done
\* case is not passed over forever; a goroutine holding the lock releases it.
LiveSpec ==
    /\ Spec
    /\ WF_vars(LoopStep)
    /\ SF_vars(Loop_recvDone)
    /\ WF_vars(updateAllCache_setCache)

\* The same scheduling assumptions, for the property of the last request.
LastSpec ==
    /\ Init /\ [][Next]_vars
    /\ WF_vars(LoopStep)
    /\ SF_vars(Loop_recvDone)
    /\ WF_vars(updateAllCache_setCache)

TypeOK ==
    /\ dbRepo \in 0..NumRepos
    /\ update \in 0..UpdateCap
    /\ isUpdated \in BOOLEAN
    /\ done \in {"open", "closed"}
    /\ caller.call \in 0..MaxCalls
    /\ lock \in {"free", "caller", "loop"}

--------------------------------------------------------------------------
(***************************************************************************)
(* Properties                                                              *)
(***************************************************************************)

\* Positions of the loop from the receive of a request to the end of
\* setForeignKeysCache.
InCycle == {"clear", "newUpdater", "generate", "setColumnCache",
            "setForeignKeysCache"}

\* Equality of two detail sub-maps as a reader sees them: two maps without
\* entries are equal, two populated maps are equal when they come from the
\* same query.
SameMap(a, b) ==
    /\ a.data = b.data
    /\ a.data = "full" => (a.repo = b.repo /\ a.cycle = b.cycle)

\* C1: when the primary refresh of a ReCache call fails, the call returns
\* the error, the installed cache reference is the one Cache() returned
\* when the call began (nil included), and the call has requested no
\* secondary refresh.
C1_FailedReCacheLeavesCache ==
    caller.pc = "ret_err" =>
        /\ Cache.by = caller.entryRef
        /\ hist.issued = caller.entryIssued

\* C1 witness: a rebind fails while an earlier cache is installed.
C1_Witness ==
    /\ caller.pc = "ret_err"
    /\ caller.entryRef # 0
    /\ Cache.by = caller.entryRef

\* C2: the trigger of the secondary refresh never blocks the caller of
\* ReCache: the send on the update channel never has to wait.
C2_TriggerNeverBlocks ==
    caller.pc # "parked"

\* C3: UpdateCompleted() is false from the request of a secondary refresh
\* until that refresh completes, in particular when a successful ReCache
\* returns.
C3_NotReadyWhileRequested ==
    (update > 0 \/ loop.pc \in InCycle \/ caller.pc = "ret_ok")
        => ~UpdateCompleted

\* C4: when UpdateCompleted() is true, the columns and the foreign keys of
\* the cache returned by Cache() are those written by the most recently
\* completed secondary refresh.
C4_ReadySeesLastCompleted ==
    UpdateCompleted =>
        /\ Cache.col.cycle = hist.lastDone
        /\ Cache.fk.cycle = hist.lastDone

\* C5: a secondary refresh that failed leaves the columns and the foreign
\* keys of the installed cache as they were before its two writes.
C5_FailedRefreshKeepsDetail ==
    [][ /\ (loop.pc = "setColumnCache" /\ loop.err
               /\ loop'.pc = "setForeignKeysCache")
           => SameMap(dbCache'.col, dbCache.col)
        /\ (loop.pc = "setForeignKeysCache" /\ loop.err
               /\ loop'.pc = "storeTrue")
           => SameMap(dbCache'.fk, dbCache.fk) ]_vars

\* C6: when UpdateCompleted() is true, the columns and the foreign keys of
\* the installed cache come from the same cycle (both written by one
\* secondary refresh, or both not yet written).
C6_NoMixedCycles ==
    (UpdateCompleted /\ Cache.by # 0) => Cache.col.cycle = Cache.fk.cycle

\* C7: UpdateCompleted() is false in every state in which the loop is
\* between the receive of a request and the end of setForeignKeysCache
\* (the flag is cleared before the first sub-map write and set only after
\* the second).
C7_FalseFromReceive ==
    loop.pc \in InCycle => ~UpdateCompleted

\* C8: a trigger issued while a request is pending in the slot is a no-op:
\* it never puts a further request in the slot.
C8_PendingTriggerIsNoOp ==
    hist.late = 0

\* C9: the loop has started no more cycles than requests were put in the
\* slot, and no more requests were put than triggers were issued by
\* successful ReCache calls.
C9_NoPhantomRuns ==
    /\ hist.cycles <= hist.sent
    /\ hist.sent <= hist.issued

\* C9 witness: two triggers, two cycles started.
C9_Witness ==
    /\ hist.cycles = 2
    /\ hist.issued = 2

\* C10: when a successful ReCache returns, Cache() is the non-nil cache
\* built by that call; and Cache() never becomes nil again once a cache is
\* installed.
C10_CacheInstalledOnReturn ==
    /\ [](caller.pc = "ret_ok" => (Cache.by # 0 /\ Cache.by = caller.call))
    /\ [][dbCache.by # 0 => dbCache'.by # 0]_vars

\* C10 witness: a rebind returns before the loop has written any detail
\* into the cache it installed.
C10_Witness ==
    /\ caller.pc = "ret_ok"
    /\ caller.call >= 2
    /\ Cache.by = caller.call
    /\ Cache.col.cycle = 0
    /\ Cache.fk.cycle = 0

\* C11: with the loop started and not stopped, after a successful ReCache
\* has put the n-th request in the slot, the cycle serving it completes and
\* UpdateCompleted() is true, whether its queries succeed or fail.
C11_EventuallyReady ==
    \A n \in 1..MaxCalls :
        (caller.pc = "ret_ok" /\ hist.sent = n /\ loop.pc # "notstarted")
            ~> (done = "closed" \/ (UpdateCompleted /\ hist.lastDone >= n))

\* C11 witness: the flag is true at the end of a later cycle that failed.
C11_Witness ==
    /\ UpdateCompleted
    /\ hist.lastDone >= 2
    /\ loop.pc = "select"
    /\ loop.err
    /\ done = "open"

\* C12: a failed secondary refresh is not fatal: the error return of
\* ReCache is reached only from its own primary refresh, the failed cycle
\* ends with the flag set and the loop back at its select, and the loop
\* exits only through the done channel.
C12_FailedRefreshNonFatal ==
    /\ [][caller'.pc = "ret_err" => caller.pc \in {"primary", "ret_err"}]_vars
    /\ [][(loop.pc = "storeTrue" /\ loop.err /\ loop'.pc # "storeTrue")
            => (isUpdated' /\ loop'.pc = "select")]_vars
    /\ [](loop.pc = "exited" => done = "closed")
    /\ (loop.pc = "setColumnCache" /\ loop.err)
            ~> (UpdateCompleted /\ loop.pc = "select")

\* C12 witness: a cycle has started after a cycle that failed, whose end
\* set the flag.
C12_Witness ==
    /\ loop.pc = "clear"
    /\ loop.err
    /\ UpdateCompleted
    /\ hist.lastDone + 1 = loop.cycle

\* C13: setColumnCache changes the columns of the installed cache and
\* nothing else, setForeignKeysCache its foreign keys and nothing else;
\* the cache reference and its topology stay.
C13_SubMapWriteFrame ==
    [][ /\ (loop.pc = "setColumnCache" /\ loop'.pc = "setForeignKeysCache")
           => /\ dbCache'.by = dbCache.by
              /\ dbCache'.repo = dbCache.repo
              /\ dbCache'.fk = dbCache.fk
              /\ dbCache'.col = loop.col
        /\ (loop.pc = "setForeignKeysCache" /\ loop'.pc = "storeTrue")
           => /\ dbCache'.by = dbCache.by
              /\ dbCache'.repo = dbCache.repo
              /\ dbCache'.col = dbCache.col
              /\ dbCache'.fk = loop.fk ]_vars

\* C13 witness: the first cycle has written its foreign keys into the
\* cache a second ReCache installed meanwhile, whose topology is kept.
C13_Witness ==
    /\ loop.pc = "storeTrue"
    /\ loop.cycle = 1
    /\ dbCache.by = 2
    /\ dbCache.fk.cycle = 1

\* C14: once Stop() has been called the loop starts no new cycle.
C14_NoRefreshAfterStop ==
    [][done = "closed" => hist.cycles' = hist.cycles]_vars

\* C15: after Stop() the started loop eventually exits, and once exited it
\* stays exited.
C15_LoopExitsAfterStop ==
    /\ (done = "closed" /\ loop.pc # "notstarted") ~> (loop.pc = "exited")
    /\ [][loop.pc = "exited" => loop'.pc = "exited"]_vars

\* C15 witness: the loop has exited after having run a cycle, a request
\* still in the slot.
C15_Witness ==
    /\ loop.pc = "exited"
    /\ hist.lastDone >= 1
    /\ update > 0

\* C16: Cache() and UpdateCompleted() can run and return in every
\* reachable state, whoever holds the lock, whatever the loop and the
\* caller of ReCache are doing.
C16_ReadersNeverWait ==
    /\ ENABLED Reader_Cache
    /\ ENABLED Reader_UpdateCompleted

\* C16 witness: Cache() has returned the cache a rebind is replacing while
\* that rebind holds the lock, the loop being inside the repository call.
C16_Witness ==
    /\ reader.op = "Cache"
    /\ reader.held
    /\ lock = "caller"
    /\ reader.ref # 0
    /\ reader.ref = dbCache.by
    /\ loop.pc = "generate"

\* The key a row is grouped by.
FkKey(row) == <<row.fkID, row.table>>

\* The rows that open a maximal contiguous run of equal keys.
RunStarts(rows) ==
    {i \in 1..Len(rows) : i = 1 \/ FkKey(rows[i]) # FkKey(rows[i - 1])}

\* The k-th run of the stream, as the interval of its rows.
RunOf(rows, k) ==
    LET starts == RunStarts(rows)
        s == CHOOSE x \in starts : Cardinality({y \in starts : y <= x}) = k
        later == {y \in starts : y > s}
        e == IF later = {} THEN Len(rows)
             ELSE (CHOOSE y \in later : \A z \in later : y <= z) - 1
    IN [first |-> s, last |-> e]

\* The columns a pair joins, without their schemas.
PairNames(p) == <<p[1].Table, p[1].Name, p[2].Table, p[2].Name>>

RowNames(row) == <<row.table, row.column, row.refTable, row.refColumn>>

\* The pairs of a relation list, one after the other.
RECURSIVE FlatPairs(_)
FlatPairs(rels) ==
    IF rels = <<>> THEN <<>> ELSE Head(rels) \o FlatPairs(Tail(rels))

\* C17: for every row stream parseForeignKeys returns one relation per
\* maximal contiguous run of rows with equal (constraint id, table), each
\* holding the rows of its run in input order; a pair that comes back
\* after another one opens a relation of its own.
C17_OneRelationPerRun ==
    fk.pc \in {"done", "panic"} =>
        /\ fk.pc = "done"
        /\ Len(fk.retVal) = Cardinality(RunStarts(fk.rows))
        /\ \A k \in 1..Len(fk.retVal) :
              LET run == RunOf(fk.rows, k)
              IN /\ Len(fk.retVal[k]) = run.last - run.first + 1
                 /\ \A j \in 1..Len(fk.retVal[k]) :
                       PairNames(fk.retVal[k][j])
                           = RowNames(fk.rows[run.first + j - 1])

\* C18: every relation returned is non-empty and its pairs share one local
\* table and one local schema; an empty stream gives an empty list, without
\* error.
C18_RelationsWellFormed ==
    fk.pc = "done" =>
        /\ \A k \in 1..Len(fk.retVal) :
              /\ Len(fk.retVal[k]) > 0
              /\ \A i, j \in 1..Len(fk.retVal[k]) :
                    /\ fk.retVal[k][i][1].Table = fk.retVal[k][j][1].Table
                    /\ fk.retVal[k][i][1].Schema = fk.retVal[k][j][1].Schema
        /\ Len(fk.rows) = 0 => fk.retVal = <<>>

\* C18 witness: a list of two relations is returned, one of them with two
\* pairs.
C18_Witness ==
    /\ fk.pc = "done"
    /\ Len(fk.retVal) = 2
    /\ Len(fk.retVal[1]) = 2
    /\ fk.retVal[1][1][1].Table = "T"

\* C19: the local side of every pair carries the schema being described;
\* the referenced side carries the schema of the row when the query has six
\* columns and the schema being described when it has five.
C19_PairSchemas ==
    fk.pc = "done" =>
        LET pairs == FlatPairs(fk.retVal)
        IN /\ Len(pairs) = Len(fk.rows)
           /\ \A i \in 1..Len(pairs) :
                 /\ pairs[i][1].Schema = fk.schemaName
                 /\ pairs[i][2].Schema =
                        IF fk.ncols = 6 THEN fk.rows[i].refSchema
                        ELSE fk.schemaName

\* C19 witness: a six-column query whose row references another schema.
C19_Witness ==
    /\ fk.pc = "done"
    /\ fk.ncols = 6
    /\ Len(fk.retVal) >= 1
    /\ fk.retVal[1][1][1].Schema = fk.schemaName
    /\ fk.retVal[1][1][2].Schema # fk.schemaName

\* C20: at most one cycle is in flight: while the loop is inside a cycle
\* every earlier cycle has stored the flag, and outside a cycle every
\* started cycle has.
C20_OneCycleAtATime ==
    /\ loop.pc \in InCycle \cup {"storeTrue"}
          => (loop.cycle = hist.cycles /\ hist.lastDone + 1 = hist.cycles)
    /\ loop.pc \in {"notstarted", "select", "exited"}
          => hist.lastDone = hist.cycles

\* C20 witness: the second cycle starts while a third request waits.
C20_Witness ==
    /\ loop.pc = "clear"
    /\ hist.cycles = 2
    /\ hist.issued = 3
    /\ update = 1

\* C21: every detail sub-map a secondary refresh has written into the
\* installed cache was queried from the repository whose primary refresh
\* built that cache.
C21_DetailFromCacheRepo ==
    /\ dbCache.col.cycle # 0 => dbCache.col.repo = dbCache.repo
    /\ dbCache.fk.cycle # 0 => dbCache.fk.repo = dbCache.repo

\* C22: when a ReCache call returns the error of its primary refresh after
\* an earlier call has succeeded, the repository bound to the worker is
\* still the one of the last successful ReCache, the one that built the
\* installed cache.
C22_FailedReCacheKeepsRepo ==
    (caller.pc = "ret_err" /\ dbCache.by # 0) => dbRepo = dbCache.repo

\* The state the worker settles in after ReCache call n, when that call is
\* the last: the loop back at its select with nothing pending, the flag
\* set, the cache of call n installed, its columns and foreign keys written
\* by the cycle that served the last request, queried from the repository
\* of call n.
Quiescent(n) ==
    /\ loop.pc = "select"
    /\ update = 0
    /\ caller.pc # "parked"
    /\ UpdateCompleted
    /\ dbCache.by = n
    /\ hist.lastDone = hist.sent
    /\ dbCache.col.cycle = hist.sent
    /\ dbCache.fk.cycle = hist.sent
    /\ dbCache.col.repo = dbCache.repo
    /\ dbCache.fk.repo = dbCache.repo

\* C23: if ReCache call n succeeds and no further call follows, the loop
\* being started and not stopped, the worker reaches the quiescent state of
\* call n: the last request is served by a cycle that starts after the
\* call installed its cache and queries the call's repository.
C23_LastRequestServed ==
    \A n \in 1..MaxCalls :
        (caller.call = n /\ caller.pc = "ret_ok" /\ loop.pc # "notstarted")
            ~> (done = "closed" \/ caller.call > n \/ Quiescent(n))

\* C23 witness: the quiescent state of a third call that rebound the
\* worker to another repository, its request served by the third cycle.
C23_Witness ==
    /\ Quiescent(3)
    /\ caller.call = 3
    /\ hist.sent = 3
    /\ dbCache.repo = 2
    /\ done = "open"

\* C24: the loop is inside a cycle only while a cache is installed, so
\* the nil tests of setColumnCache and setForeignKeysCache always pass; and
\* UpdateCompleted() true implies Cache() non-nil.
C24_CycleHasCache ==
    /\ loop.pc \in InCycle \cup {"storeTrue"} => dbCache.by # 0
    /\ UpdateCompleted => Cache.by # 0

\* C24 witness: the loop holds the lock for the write of the columns of
\* its first cycle, the cache installed.
C24_Witness ==
    /\ loop.pc = "setColumnCache"
    /\ lock = "loop"
    /\ loop.cycle = 1
    /\ dbCache.by # 0

\* C25: in parseForeignKeys the relation in progress is non-nil whenever a
\* pair is appended to it: no call ends in the nil dereference.
C25_CurNonNilOnAppend ==
    fk.pc # "panic"

==========================================================================
